---- MODULE Spec2Model ----
(***************************************************************************)
(* hackersvc: one Ping method behind an endpoint middleware chain (rate    *)
(* limiter, circuit breaker) and three wire transports (HTTP/JSON, gRPC,   *)
(* Thrift).                                                                *)
(*                                                                         *)
(* Three groups of state:                                                  *)
(*   - the chain state: one endpoint chain of a given kind (the HTTP       *)
(*     server built by hackerendpoint.New, or one of the three clients),   *)
(*     called by concurrent workers while time passes;                     *)
(*   - the wire state: one endpoint result pushed through the server       *)
(*     encoder and the client decoder of each transport;                   *)
(*   - the service middleware state: a Service wrapped by a stack of       *)
(*     logging and instrumenting middlewares, called repeatedly.           *)
(* Time is counted in ticks of 1/TicksPerSecond second.  The limiter's     *)
(* tokens are counted in 1/TicksPerSecond token, so one tick refills one   *)
(* unit.  The breaker's expiry is kept relative to the current instant.    *)
(***************************************************************************)
EXTENDS Integers, Sequences, FiniteSets, Bags, TLC

VARIABLES
    kind,       \* which chain: "server", "http", "grpc", "thrift"
    tokens,     \* rate.Limiter: tokens left, in 1/TicksPerSecond token
    cb,         \* gobreaker.CircuitBreaker: state, generation, counts, expiry
    pc,         \* per worker: position of its call in the chain
    gen,        \* per worker: breaker generation returned by beforeRequest
    epres,      \* per worker: what the wrapped endpoint returned
    ret,        \* per worker: what Set.Ping returns to the caller (clients)
    reply,      \* per worker: the HTTP response written (server)
    budget,     \* how many calls the workload issues
    horizon,    \* how many ticks the workload still runs; Forever for no limit
    failureRate,\* basicService: "0" never fails, "1" always, "between" either
    calls,      \* calls issued so far
    wrapped,    \* invocations of the endpoint wrapped by the breaker
    inner,      \* invocations of the innermost endpoint
    pings,      \* service-level counter (instrumentingMiddleware.pings)
    svcLog,     \* service-level log (loggingMiddleware.logger): a bag of entries
    epLogs,     \* endpoint-level log: entries written (server)
    epObs,      \* endpoint-level histogram: observations made (server)
    span,       \* per worker: the tracing spans of its call
    mwStack,    \* service middleware: the layers around a Service, innermost first
    mwIn,       \* service middleware: what the wrapped Service returns
    mwRet,      \* service middleware: the pair on its way back to the caller
    mwAt,       \* service middleware: layers that have returned; Calling before
    mwLog,      \* service middleware: the logger's entries, oldest first
    mwPings,    \* service middleware: the counter
    mwDone,     \* service middleware: calls that have returned to the caller
    wReq,       \* wire: whether the HTTP request body can be decoded
    wIn,        \* wire: the endpoint result the server has to send
    wMsg,       \* wire: per transport, the message on the wire
    wOut,       \* wire: per transport, what Set.Ping returns at the client
    wPc         \* wire: per transport, "start", "sent", "done", "faulted"

chainVars == <<kind, budget, horizon, failureRate, tokens, cb, pc, gen, epres, ret, reply, calls, wrapped, inner, pings, svcLog,
               epLogs, epObs, span>>
wireVars == <<wReq, wIn, wMsg, wOut, wPc>>
mwVars == <<mwStack, mwIn, mwRet, mwAt, mwLog, mwPings, mwDone>>
vars == <<kind, budget, horizon, failureRate, tokens, cb, pc, gen, epres, ret, reply, calls, wrapped, inner, pings, svcLog,
          epLogs, epObs, span,
          wReq, wIn, wMsg, wOut, wPc,
          mwStack, mwIn, mwRet, mwAt, mwLog, mwPings, mwDone>>

(***************************************************************************)
(* Bounds of the model.                                                    *)
(***************************************************************************)
MaxCalls == 8          \* calls of a workload that stays within the burst
MaxExtra == 8          \* calls beyond the burst of a workload that exhausts it
MaxTicks == 3          \* ticks a workload that exhausts the burst runs for
MaxPings == 2          \* calls made to a Service wrapped by service middleware
TicksPerSecond == 2    \* resolution of the clock

Forever == 0 - 1
Workers == {"w1", "w2"}
Transports == {"http", "grpc", "thrift"}
Kinds == {"server"} \cup Transports

(***************************************************************************)
(* Errors.  A Go error is a value with an identity and a message; nil is   *)
(* the value Nil.  errors.New makes an error that is identical to no       *)
(* sentinel.                                                               *)
(***************************************************************************)
Nil == [id |-> "nil", msg |-> ""]
NewError(m) == [id |-> "new", msg |-> m]
ErrRandomFailure == [id |-> "ErrRandomFailure", msg |-> "random failure"]
ErrLimited == [id |-> "ErrLimited", msg |-> "rate limit exceeded"]
ErrOpenState == [id |-> "ErrOpenState", msg |-> "circuit breaker is open"]
ErrTooManyRequests == [id |-> "ErrTooManyRequests", msg |-> "too many requests"]

StatusOK == 200
StatusTeapot == 418
StatusInternalServerError == 500

StatusLine(code) ==
    CASE code = StatusOK -> "200 OK"
      [] code = StatusTeapot -> "418 I'm a teapot"
      [] OTHER -> "500 Internal Server Error"

(***************************************************************************)
(* str2err / err2str: the string form of an error on the gRPC and Thrift   *)
(* wire.                                                                   *)
(***************************************************************************)
\* A str2err without the special case for the empty string.
str2err_NoSpecialCase(s) == NewError(s)

str2err(s) == IF s = "" THEN Nil ELSE NewError(s)

\* An err2str that formats a nil error instead of special-casing it.
err2str_Formatted(err) == IF err = Nil THEN "<nil>" ELSE err.msg

err2str(err) == IF err = Nil THEN "" ELSE err.msg

(***************************************************************************)
(* Endpoint results.  An endpoint returns (response, error); a nil         *)
(* response is NoResponse with isNil set.  panicked marks a call that      *)
(* ended in a run-time panic instead of returning.                         *)
(***************************************************************************)
PingResponse(p, err) == [P |-> p, Err |-> err, isNil |-> FALSE]
NoResponse == [P |-> "", Err |-> Nil, isNil |-> TRUE]
Returned(resp, err) == [resp |-> resp, err |-> err, panicked |-> FALSE]
Panicked == [resp |-> NoResponse, err |-> Nil, panicked |-> TRUE]

\* The outcomes the random draw of basicService.Ping can have.
Draws(rate) ==
    CASE rate = "0" -> {FALSE}
      [] rate = "1" -> {TRUE}
      [] OTHER -> BOOLEAN

\* A basic service that returns its payload together with the failure.
basicServicePing_Partial(fails) ==
    IF fails THEN [p |-> "pong", err |-> ErrRandomFailure] ELSE [p |-> "pong", err |-> Nil]

\* A basic service that answers in upper case.
basicServicePing_Upper(fails) ==
    IF fails THEN [p |-> "", err |-> ErrRandomFailure] ELSE [p |-> "PONG", err |-> Nil]

\* basicService.Ping: "pong", or the sentinel failure.
basicServicePing(fails) ==
    IF fails THEN [p |-> "", err |-> ErrRandomFailure] ELSE [p |-> "pong", err |-> Nil]

\* A logging middleware that logs the payload but not the error.
LogEntry_NoErr(r) == [method |-> "Ping", p |-> r.p, err |-> Nil]

\* loggingMiddleware.Ping: the deferred Log call writes the method and the
\* named results p and err as they are when the method returns.
LogEntry(r) == [method |-> "Ping", p |-> r.p, err |-> r.err]

\* An instrumenting middleware that counts the successful calls only.
instrumentingMiddlewarePing_SuccessOnly(count, r) ==
    IF r.err = Nil THEN count + 1 ELSE count

\* instrumentingMiddleware.Ping: the counter after pings.Add(1), which runs
\* whatever next.Ping returned.
instrumentingMiddlewarePing(count, r) == count + 1

\* A Ping endpoint that returns the domain error as its own error.
MakePingEndpoint_ErrOutside(r) ==
    IF r.err # Nil THEN Returned([P |-> "", Err |-> Nil, isNil |-> TRUE], r.err)
    ELSE Returned([P |-> r.p, Err |-> Nil, isNil |-> FALSE], Nil)

\* MakePingEndpoint: the domain error travels inside the response.
MakePingEndpoint(r) == Returned(PingResponse(r.p, r.err), Nil)

\* Set.Ping: the endpoint result as the Service interface returns it.
SetPing(e) ==
    IF e.panicked THEN [p |-> "", err |-> Nil, panicked |-> TRUE]
    ELSE IF e.err # Nil THEN [p |-> "", err |-> e.err, panicked |-> FALSE]
    ELSE [p |-> e.resp.P, err |-> e.resp.Err, panicked |-> FALSE]

(***************************************************************************)
(* Wire messages.  One record shape for the three transports:              *)
(*   status  HTTP status code / gRPC code / Thrift exception type (0 = ok) *)
(*   body    which message it is                                           *)
(*   p, err  the string fields it carries                                  *)
(***************************************************************************)
Wire(status, body, p, err) == [status |-> status, body |-> body, p |-> p, err |-> err]
NoWire == Wire(0, "none", "", "")

\* An err2code without the case of the sentinel.
err2code_NoSentinel(err) == StatusInternalServerError

\* err2code: only the sentinel itself gets the teapot status.
err2code(err) == IF err = ErrRandomFailure THEN StatusTeapot ELSE StatusInternalServerError

\* errorEncoder: status from err2code, body {"error": <message>}.
errorEncoder(err) == Wire(err2code(err), "error", "", err.msg)

\* encodeHTTPGenericResponse: a failed response goes through errorEncoder,
\* any other is written as {"p": <P>} with the implicit status 200.
encodeHTTPGenericResponse(resp) ==
    IF resp.Err # Nil THEN errorEncoder(resp.Err)
    ELSE Wire(StatusOK, "p", resp.P, "")

\* A request decoder that accepts any body.
decodeHTTPPingRequest_Lenient(bodyOk) == Nil

\* decodeHTTPPingRequest: json decoding of the request body.
decodeHTTPPingRequest(bodyOk) == IF bodyOk THEN Nil ELSE NewError("EOF")

\* httptransport.Server.ServeHTTP as wired by NewHTTPHandler.
HTTPServe(decodeErr, e) ==
    IF decodeErr # Nil THEN errorEncoder(decodeErr)
    ELSE IF e.err # Nil THEN errorEncoder(e.err)
    ELSE encodeHTTPGenericResponse(e.resp)

\* decodeHTTPPingResponse: a non-200 status becomes an error made of the
\* status line; a 200 body is decoded into PingResponse (Err is json:"-").
decodeHTTPPingResponse(r) ==
    IF r.status # StatusOK THEN Returned(NoResponse, NewError(StatusLine(r.status)))
    ELSE Returned(PingResponse(r.p, Nil), Nil)

\* encodeGRPCPingResponse, and the gRPC status an endpoint error becomes.
encodeGRPCPingResponse(resp) == Wire(0, "PingReply", resp.P, err2str(resp.Err))

GRPCServe(e) ==
    IF e.err # Nil THEN Wire(2, "status", "", "rpc error: code = Unknown desc = " \o e.err.msg)
    ELSE encodeGRPCPingResponse(e.resp)

\* decodeGRPCPingResponse.
decodeGRPCPingResponse(m) == Returned(PingResponse(m.p, str2err(m.err)), Nil)

GRPCClient(m) ==
    IF m.status # 0 THEN Returned(NoResponse, NewError(m.err))
    ELSE decodeGRPCPingResponse(m)

\* thriftServer.Ping: an endpoint error is returned as the handler's error
\* (the processor sends it as an application exception).
thriftServerPing(e) ==
    IF e.err # Nil
    THEN Wire(6, "TApplicationException", "", "Internal error processing ping: " \o e.err.msg)
    ELSE Wire(0, "PingReply", e.resp.P, err2str(e.resp.Err))

\* MakeThriftPingEndpoint: client.Ping returns (reply, err); err is never
\* the sentinel value itself; the response is built from reply.Value and
\* err, and reply is nil whenever err is not.
MakeThriftPingEndpoint(m) ==
    IF m.status # 0 THEN Panicked
    ELSE Returned(PingResponse(m.p, Nil), Nil)

\* The innermost endpoint of a client: the network call and the decoding
\* of its reply.  fault: the call failed at the transport level.
ClientEndpoint(t, fault, m) ==
    CASE t = "http" ->
           IF fault THEN Returned(NoResponse, NewError("connection refused"))
           ELSE decodeHTTPPingResponse(m)
      [] t = "grpc" ->
           IF fault THEN Returned(NoResponse, NewError("rpc error: code = Unavailable"))
           ELSE GRPCClient(m)
      [] OTHER ->
           IF fault THEN Panicked ELSE MakeThriftPingEndpoint(m)

\* What the server of transport t puts on the wire for an endpoint result.
ServerWire(t, e) ==
    CASE t = "http" -> HTTPServe(Nil, e)
      [] t = "grpc" -> GRPCServe(e)
      [] OTHER -> thriftServerPing(e)

(***************************************************************************)
(* Rate limiter: ratelimit.NewErroringLimiter(rate.NewLimiter(             *)
(* rate.Every(time.Second), 100)).  Allow takes one token if there is one  *)
(* and never waits.                                                        *)
(***************************************************************************)
Burst == 100
TokenUnit == TicksPerSecond            \* one token, in units of tokens
BucketFull == Burst * TokenUnit

\* An Allow that admits without looking at the token count.
Allow_Overdraw(tok) == <<TRUE, tok - TokenUnit>>

\* An Allow that takes a fraction of a token for a token.
Allow_Fraction(tok) == IF tok > 0 THEN <<TRUE, 0>> ELSE <<FALSE, tok>>

\* rate.Limiter.Allow at the current instant: <<admitted, tokens left>>.
Allow(tok) == IF tok >= TokenUnit THEN <<TRUE, tok - TokenUnit>> ELSE <<FALSE, tok>>

\* rate.Limiter.advance over one tick: one unit more, never above burst.
Refill(tok) == IF tok + 1 > BucketFull THEN BucketFull ELSE tok + 1

(***************************************************************************)
(* Circuit breaker: gobreaker with its default MaxRequests (1), Interval   *)
(* (0: the counts of a closed breaker are never cleared by time) and       *)
(* ReadyToTrip (more than 5 consecutive failures).  expiry is the number   *)
(* of ticks after which expiry.Before(now) holds; it is 0 for the zero     *)
(* time of a closed or half-open breaker.                                  *)
(***************************************************************************)
DefaultTimeout == 60
ClientTimeout == 30
ThriftTimeout == 10
MaxRequests == 1
TripAfter == 5

Timeout(k) ==
    CASE k = "server" -> DefaultTimeout
      [] k = "thrift" -> ThriftTimeout
      [] OTHER -> ClientTimeout

NewCircuitBreaker ==
    [state |-> "closed", generation |-> 0, requests |-> 0,
     consecutiveSuccesses |-> 0, consecutiveFailures |-> 0, expiry |-> 0]

\* A ReadyToTrip that trips one failure late.
readyToTrip_Late(c) == c.consecutiveFailures > TripAfter + 1

readyToTrip(c) == c.consecutiveFailures > TripAfter

toNewGeneration(c, k) ==
    [c EXCEPT !.generation = @ + 1,
              !.requests = 0,
              !.consecutiveSuccesses = 0,
              !.consecutiveFailures = 0,
              !.expiry = IF c.state = "open" THEN Timeout(k) * TicksPerSecond + 1 ELSE 0]

setState(c, s, k) ==
    IF c.state = s THEN c ELSE toNewGeneration([c EXCEPT !.state = s], k)

currentState(c, k) ==
    IF c.state = "open" /\ c.expiry = 0 THEN setState(c, "half-open", k) ELSE c

\* An onSuccess that leaves the failures of a closed breaker counted.
onSuccess_KeepsFailures(c, k) ==
    CASE c.state = "closed" -> [c EXCEPT !.consecutiveSuccesses = @ + 1]
      [] c.state = "half-open" ->
           LET d == [c EXCEPT !.consecutiveSuccesses = @ + 1, !.consecutiveFailures = 0]
           IN  IF d.consecutiveSuccesses >= MaxRequests THEN setState(d, "closed", k) ELSE d
      [] OTHER -> c

onSuccess(c, k) ==
    CASE c.state = "closed" ->
           [c EXCEPT !.consecutiveSuccesses = @ + 1, !.consecutiveFailures = 0]
      [] c.state = "half-open" ->
           LET d == [c EXCEPT !.consecutiveSuccesses = @ + 1, !.consecutiveFailures = 0]
           IN  IF d.consecutiveSuccesses >= MaxRequests THEN setState(d, "closed", k) ELSE d
      [] OTHER -> c

\* An onFailure that closes a half-open breaker instead of reopening it.
onFailure_Closes(c, k) ==
    CASE c.state = "closed" ->
           LET d == [c EXCEPT !.consecutiveFailures = @ + 1, !.consecutiveSuccesses = 0]
           IN  IF readyToTrip(d) THEN setState(d, "open", k) ELSE d
      [] c.state = "half-open" -> setState(c, "closed", k)
      [] OTHER -> c

onFailure(c, k) ==
    CASE c.state = "closed" ->
           LET d == [c EXCEPT !.consecutiveFailures = @ + 1, !.consecutiveSuccesses = 0]
           IN  IF readyToTrip(d) THEN setState(d, "open", k) ELSE d
      [] c.state = "half-open" -> setState(c, "open", k)
      [] OTHER -> c

\* A beforeRequest that lets one request too many into a half-open breaker.
beforeRequest_OneTooMany(c, k) ==
    LET d == currentState(c, k)
    IN  IF d.state = "open" THEN <<d, d.generation, ErrOpenState>>
        ELSE IF d.state = "half-open" /\ d.requests > MaxRequests
             THEN <<d, d.generation, ErrTooManyRequests>>
        ELSE <<[d EXCEPT !.requests = @ + 1], d.generation, Nil>>

\* beforeRequest: <<breaker after, generation, error>>.
beforeRequest(c, k) ==
    LET d == currentState(c, k)
    IN  IF d.state = "open" THEN <<d, d.generation, ErrOpenState>>
        ELSE IF d.state = "half-open" /\ d.requests >= MaxRequests
             THEN <<d, d.generation, ErrTooManyRequests>>
        ELSE <<[d EXCEPT !.requests = @ + 1], d.generation, Nil>>

\* afterRequest: the outcome of a call of an older generation is dropped.
afterRequest(c, before, success, k) ==
    LET d == currentState(c, k)
    IN  IF d.generation # before THEN d
        ELSE IF success THEN onSuccess(d, k) ELSE onFailure(d, k)

\* One tick of the clock, as the breaker's expiry sees it.
Elapse(c) == IF c.state = "open" /\ c.expiry > 0 THEN [c EXCEPT !.expiry = @ - 1] ELSE c

(***************************************************************************)
(* The chain.  A call goes: breaker (beforeRequest) -> limiter (Allow) ->  *)
(* innermost endpoint -> breaker (afterRequest) -> caller.  On the server  *)
(* the caller is the HTTP handler, which first decodes the request body    *)
(* and last writes the response; on a client it is Set.Ping.               *)
(***************************************************************************)
NoResult == Returned(NoResponse, Nil)
NoRet == [p |-> "", err |-> Nil, panicked |-> FALSE]

\* The endpoint-level middlewares of hackerendpoint.New: the logging one
\* writes one entry, the instrumenting one makes one observation, each time
\* the endpoint it wraps returns.
LoggingMiddleware(entries) == entries + 1
InstrumentingMiddleware(observations) == observations + 1

\* Tracing.  TraceServer and TraceClient start a span with the operation
\* name before calling the endpoint they wrap and finish it when that
\* endpoint returns.  On the server the tracing middleware wraps the
\* breaker (the span it finishes is the one the HTTP handler has started
\* for the request); on the HTTP and gRPC clients it wraps the transport
\* endpoint only; the Thrift client has none.
NoSpan == [name |-> "", started |-> 0, finished |-> 0]
StartSpan(s, name) == [s EXCEPT !.name = name, !.started = @ + 1]
FinishSpan(s) == [s EXCEPT !.finished = @ + 1]

TraceLayer(k) ==
    CASE k = "server" -> "around breaker"
      [] k = "thrift" -> "none"
      [] OTHER -> "around transport"

\* A panic in a client ends the process.
Crashed == \E w \in Workers : ret[w].panicked

\* A chain whose logging and instrumenting middlewares sit inside the
\* breaker: a call the breaker rejects passes neither.
Deliver_InsideBreaker(w, e) ==
    IF kind = "server"
    THEN /\ reply' = [reply EXCEPT ![w] = HTTPServe(Nil, e)]
         /\ epLogs' = IF e.err \in {ErrOpenState, ErrTooManyRequests}
                       THEN epLogs ELSE LoggingMiddleware(epLogs)
         /\ epObs' = IF e.err \in {ErrOpenState, ErrTooManyRequests}
                      THEN epObs ELSE InstrumentingMiddleware(epObs)
         /\ ret' = ret
    ELSE /\ ret' = [ret EXCEPT ![w] = SetPing(e)]
         /\ UNCHANGED <<reply, epLogs, epObs>>

\* What the caller gets from the endpoint result e.  On the server the
\* result first passes the endpoint-level logging and instrumenting
\* middlewares, which wrap the whole chain.
Deliver(w, e) ==
    IF kind = "server"
    THEN /\ reply' = [reply EXCEPT ![w] = HTTPServe(Nil, e)]
         /\ epLogs' = LoggingMiddleware(epLogs)
         /\ epObs' = InstrumentingMiddleware(epObs)
         /\ ret' = ret
    ELSE /\ ret' = [ret EXCEPT ![w] = SetPing(e)]
         /\ UNCHANGED <<reply, epLogs, epObs>>

\* What the remote server's endpoint may return to a client's network call.
RemoteResults ==
    {MakePingEndpoint(basicServicePing(f)) : f \in BOOLEAN}
        \cup {Returned(NoResponse, ErrLimited)}

Constructed ==
    /\ tokens = BucketFull
    /\ cb = NewCircuitBreaker
    /\ pc = [w \in Workers |-> "idle"]
    /\ gen = [w \in Workers |-> 0]
    /\ epres = [w \in Workers |-> NoResult]
    /\ ret = [w \in Workers |-> NoRet]
    /\ reply = [w \in Workers |-> NoWire]
    /\ calls = 0
    /\ wrapped = 0
    /\ inner = 0
    /\ pings = 0
    /\ svcLog = EmptyBag
    /\ epLogs = 0
    /\ epObs = 0
    /\ span = [w \in Workers |-> NoSpan]

\* The Service of hackerservice.New, not called yet.
NoPair == [p |-> "", err |-> Nil]
Calling == 0 - 1

ServiceNew == <<"logging", "instrumenting">>

InitService ==
    /\ mwIn = NoPair
    /\ mwRet = NoPair
    /\ mwAt = Len(mwStack)
    /\ mwLog = << >>
    /\ mwPings = 0
    /\ mwDone = 0

InitWire ==
    /\ wReq = TRUE
    /\ wIn = NoResult
    /\ wMsg = [t \in Transports |-> NoWire]
    /\ wOut = [t \in Transports |-> NoRet]
    /\ wPc = [t \in Transports |-> "start"]

\* The HTTP server cannot decode the request body: the error encoder
\* answers and the endpoint is not called.  The span that the handler's
\* ServerBefore function (HTTPToContext) starts for the request is left
\* unfinished, as it is TraceServer that finishes it.
Malformed(w) ==
    /\ kind = "server"
    /\ pc[w] = "idle"
    /\ calls < budget
    /\ calls' = calls + 1
    /\ pc' = [pc EXCEPT ![w] = "done"]
    /\ reply' = [reply EXCEPT ![w] = HTTPServe(decodeHTTPPingRequest(FALSE), NoResult)]
    /\ span' = [span EXCEPT ![w] = StartSpan(@, "Ping")]
    /\ UNCHANGED <<kind, budget, horizon, failureRate, tokens, cb, gen, epres, ret, wrapped, inner, pings, svcLog,
                   epLogs, epObs>>
    /\ UNCHANGED <<wireVars, mwVars>>

\* A call reaches the breaker: gobreaker.Execute up to the call of req.
Arrive(w) ==
    /\ ~Crashed
    /\ pc[w] = "idle"
    /\ calls < budget
    /\ calls' = calls + 1
    /\ LET b == beforeRequest(cb, kind)
       IN  /\ cb' = b[1]
           /\ gen' = [gen EXCEPT ![w] = b[2]]
           /\ IF b[3] # Nil
              THEN /\ epres' = [epres EXCEPT ![w] = Returned(NoResponse, b[3])]
                   /\ pc' = [pc EXCEPT ![w] = "done"]
                   /\ Deliver(w, Returned(NoResponse, b[3]))
                   /\ span' = [span EXCEPT ![w] =
                                 IF TraceLayer(kind) = "around breaker"
                                 THEN FinishSpan(StartSpan(@, "Ping")) ELSE @]
              ELSE /\ pc' = [pc EXCEPT ![w] = "limiter"]
                   /\ span' = [span EXCEPT ![w] =
                                 IF TraceLayer(kind) = "around breaker"
                                 THEN StartSpan(@, "Ping") ELSE @]
                   /\ UNCHANGED <<epres, ret, reply, epLogs, epObs>>
    /\ UNCHANGED <<kind, budget, horizon, failureRate, tokens, wrapped, inner, pings, svcLog>>
    /\ UNCHANGED <<wireVars, mwVars>>

\* A limiter that reports the rejection and calls the next endpoint anyway.
Limit_Forwarding(w) ==
    /\ ~Crashed
    /\ pc[w] = "limiter"
    /\ wrapped' = wrapped + 1
    /\ LET a == Allow(tokens)
       IN  /\ tokens' = a[2]
           /\ pc' = [pc EXCEPT ![w] = "inner"]
           /\ epres' = IF a[1] THEN epres
                       ELSE [epres EXCEPT ![w] = Returned(NoResponse, ErrLimited)]
    /\ UNCHANGED <<kind, budget, horizon, failureRate, cb, gen, ret, reply, calls, inner, pings, svcLog,
                   epLogs, epObs, span>>
    /\ UNCHANGED <<wireVars, mwVars>>

\* The breaker calls the wrapped endpoint, which is the erroring limiter.
Limit(w) ==
    /\ ~Crashed
    /\ pc[w] = "limiter"
    /\ wrapped' = wrapped + 1
    /\ LET a == Allow(tokens)
       IN  /\ tokens' = a[2]
           /\ IF a[1]
              THEN /\ pc' = [pc EXCEPT ![w] = "inner"]
                   /\ epres' = epres
              ELSE /\ pc' = [pc EXCEPT ![w] = "after"]
                   /\ epres' = [epres EXCEPT ![w] = Returned(NoResponse, ErrLimited)]
    /\ UNCHANGED <<kind, budget, horizon, failureRate, cb, gen, ret, reply, calls, inner, pings, svcLog,
                   epLogs, epObs, span>>
    /\ UNCHANGED <<wireVars, mwVars>>

\* The innermost endpoint on the server: MakePingEndpoint around the
\* Service of hackerservice.New (basic service, logging, instrumenting).
Serve(w) ==
    /\ kind = "server"
    /\ pc[w] = "inner"
    /\ \E fails \in Draws(failureRate) :
          LET r == basicServicePing(fails)
          IN  /\ svcLog' = svcLog (+) SetToBag({LogEntry(r)})
              /\ pings' = instrumentingMiddlewarePing(pings, r)
              /\ epres' = [epres EXCEPT ![w] = MakePingEndpoint(r)]
    /\ inner' = inner + 1
    /\ pc' = [pc EXCEPT ![w] = "after"]
    /\ UNCHANGED <<kind, budget, horizon, failureRate, tokens, cb, gen, ret, reply, calls, wrapped,
                   epLogs, epObs, span>>
    /\ UNCHANGED <<wireVars, mwVars>>

\* The innermost endpoint on a client: the network call.
Send(w) ==
    /\ ~Crashed
    /\ kind \in Transports
    /\ pc[w] = "inner"
    /\ \E e \in RemoteResults, fault \in BOOLEAN :
          epres' = [epres EXCEPT ![w] = ClientEndpoint(kind, fault, ServerWire(kind, e))]
    /\ span' = [span EXCEPT ![w] =
                  IF TraceLayer(kind) = "around transport"
                  THEN FinishSpan(StartSpan(@, "Ping")) ELSE @]
    /\ inner' = inner + 1
    /\ pc' = [pc EXCEPT ![w] = "after"]
    /\ UNCHANGED <<kind, budget, horizon, failureRate, tokens, cb, gen, ret, reply, calls, wrapped, pings, svcLog,
                   epLogs, epObs>>
    /\ UNCHANGED <<wireVars, mwVars>>

\* A chain that sends a failed call through the limiter again.
After_Retrying(w) ==
    /\ ~Crashed
    /\ pc[w] = "after"
    /\ cb' = afterRequest(cb, gen[w], ~epres[w].panicked /\ epres[w].err = Nil, kind)
    /\ IF epres[w].panicked \/ epres[w].err # Nil
       THEN /\ pc' = [pc EXCEPT ![w] = "limiter"]
            /\ UNCHANGED <<ret, reply, epLogs, epObs, span>>
       ELSE /\ pc' = [pc EXCEPT ![w] = "done"]
            /\ Deliver(w, epres[w])
            /\ span' = [span EXCEPT ![w] =
                          IF TraceLayer(kind) = "around breaker" THEN FinishSpan(@) ELSE @]
    /\ UNCHANGED <<kind, budget, horizon, failureRate, tokens, gen, epres, calls, wrapped, inner, pings, svcLog>>
    /\ UNCHANGED <<wireVars, mwVars>>

\* The wrapped endpoint has returned: gobreaker.Execute from afterRequest
\* on (a panic is reported as a failure and raised again), then the caller.
After(w) ==
    /\ ~Crashed
    /\ pc[w] = "after"
    /\ cb' = afterRequest(cb, gen[w], ~epres[w].panicked /\ epres[w].err = Nil, kind)
    /\ pc' = [pc EXCEPT ![w] = "done"]
    /\ Deliver(w, epres[w])
    /\ span' = [span EXCEPT ![w] =
                  IF TraceLayer(kind) = "around breaker" THEN FinishSpan(@) ELSE @]
    /\ UNCHANGED <<kind, budget, horizon, failureRate, tokens, gen, epres, calls, wrapped, inner, pings, svcLog>>
    /\ UNCHANGED <<wireVars, mwVars>>

\* The caller has its answer; the worker is free for the next call.
Return(w) ==
    /\ ~Crashed
    /\ pc[w] = "done"
    /\ pc' = [pc EXCEPT ![w] = "idle"]
    /\ gen' = [gen EXCEPT ![w] = 0]
    /\ epres' = [epres EXCEPT ![w] = NoResult]
    /\ ret' = [ret EXCEPT ![w] = NoRet]
    /\ reply' = [reply EXCEPT ![w] = NoWire]
    /\ span' = [span EXCEPT ![w] = NoSpan]
    /\ UNCHANGED <<kind, budget, horizon, failureRate, tokens, cb, calls, wrapped, inner, pings, svcLog,
                   epLogs, epObs>>
    /\ UNCHANGED <<wireVars, mwVars>>

\* Time passes by one tick.
Tick ==
    /\ ~Crashed
    /\ horizon # 0
    /\ horizon' = IF horizon = Forever THEN Forever ELSE horizon - 1
    /\ tokens' = Refill(tokens)
    /\ cb' = Elapse(cb)
    /\ UNCHANGED <<kind, budget, failureRate, pc, gen, epres, ret, reply, calls, wrapped, inner, pings, svcLog,
                   epLogs, epObs, span>>
    /\ UNCHANGED <<wireVars, mwVars>>

\* A workload that stays within the burst, on any chain.
Init ==
    /\ kind \in Kinds
    /\ budget = MaxCalls
    /\ horizon = Forever
    /\ failureRate = "between"
    /\ Constructed
    /\ InitWire
    /\ mwStack = ServiceNew
    /\ InitService

\* A workload that exhausts the burst of the server's limiter.
InitBurst ==
    /\ kind = "server"
    /\ budget = Burst + MaxExtra
    /\ horizon = MaxTicks
    /\ failureRate = "0"
    /\ Constructed
    /\ InitWire
    /\ mwStack = ServiceNew
    /\ InitService

Next ==
    \/ \E w \in Workers : Malformed(w)
    \/ \E w \in Workers : Arrive(w)
    \/ \E w \in Workers : Limit(w)
    \/ \E w \in Workers : Serve(w)
    \/ \E w \in Workers : Send(w)
    \/ \E w \in Workers : After(w)
    \/ \E w \in Workers : Return(w)
    \/ Tick

Spec == Init /\ [][Next]_vars

NextBurst ==
    \/ \E w \in Workers : Arrive(w)
    \/ \E w \in Workers : Limit(w)
    \/ \E w \in Workers : Serve(w)
    \/ \E w \in Workers : After(w)
    \/ \E w \in Workers : Return(w)
    \/ Tick

SpecBurst == InitBurst /\ [][NextBurst]_vars

\* The same workload on a server whose Service always fails.
InitFailing ==
    /\ kind = "server"
    /\ budget = Burst + MaxExtra
    /\ horizon = MaxTicks
    /\ failureRate = "1"
    /\ Constructed
    /\ InitWire
    /\ mwStack = ServiceNew
    /\ InitService

SpecFailing == InitFailing /\ [][NextBurst]_vars

(***************************************************************************)
(* The wire.  One endpoint result of the server is sent over each of the   *)
(* three transports and decoded by the matching client; the chain is in    *)
(* its constructed state and stays there (tokens available, breaker        *)
(* closed), so that the client's Set.Ping returns what its innermost       *)
(* endpoint returns.                                                       *)
(***************************************************************************)
Payloads == {"", "pong"}
Messages == {"", "random failure", "boom"}
DomainErrors == {Nil, ErrRandomFailure} \cup {NewError(m) : m \in Messages}
AdmissionErrors == {ErrLimited, ErrOpenState, ErrTooManyRequests}

\* What a server-side Ping endpoint can return for some Service.
EndpointResults ==
    {MakePingEndpoint([p |-> p, err |-> e]) : p \in Payloads, e \in DomainErrors}
        \cup {Returned(NoResponse, e) : e \in AdmissionErrors}

\* What it returns for the basic service.
ServiceResults == {MakePingEndpoint(basicServicePing(f)) : f \in BOOLEAN}

IdleChain ==
    /\ kind = "server"
    /\ budget = 0
    /\ horizon = 0
    /\ failureRate = "between"
    /\ Constructed

IdleService ==
    /\ mwStack = ServiceNew
    /\ InitService

InitWireAny ==
    /\ IdleChain
    /\ IdleService
    /\ wReq \in BOOLEAN
    /\ wIn \in EndpointResults
    /\ wMsg = [t \in Transports |-> NoWire]
    /\ wOut = [t \in Transports |-> NoRet]
    /\ wPc = [t \in Transports |-> "start"]

InitParity ==
    /\ IdleChain
    /\ IdleService
    /\ wReq = TRUE
    /\ wIn \in ServiceResults
    /\ wMsg = [t \in Transports |-> NoWire]
    /\ wOut = [t \in Transports |-> NoRet]
    /\ wPc = [t \in Transports |-> "start"]

\* The server of transport t answers.  Only the HTTP server decodes a
\* request body; the endpoint result is used when that succeeds.
ServerAnswer(t) ==
    /\ wPc[t] = "start"
    /\ wMsg' = [wMsg EXCEPT ![t] =
                  IF t = "http" THEN HTTPServe(decodeHTTPPingRequest(wReq), wIn)
                  ELSE ServerWire(t, wIn)]
    /\ wPc' = [wPc EXCEPT ![t] = "sent"]
    /\ UNCHANGED <<wReq, wIn, wOut>>
    /\ UNCHANGED <<chainVars, mwVars>>

\* The client of transport t gets the answer and Set.Ping returns.
ClientReturn(t) ==
    /\ wPc[t] = "sent"
    /\ wOut' = [wOut EXCEPT ![t] = SetPing(ClientEndpoint(t, FALSE, wMsg[t]))]
    /\ wPc' = [wPc EXCEPT ![t] = "done"]
    /\ UNCHANGED <<wReq, wIn, wMsg>>
    /\ UNCHANGED <<chainVars, mwVars>>

\* The network call of the client of transport t fails instead.
ClientFault(t) ==
    /\ wPc[t] = "sent"
    /\ wOut' = [wOut EXCEPT ![t] = SetPing(ClientEndpoint(t, TRUE, wMsg[t]))]
    /\ wPc' = [wPc EXCEPT ![t] = "faulted"]
    /\ UNCHANGED <<wReq, wIn, wMsg>>
    /\ UNCHANGED <<chainVars, mwVars>>

NextWire ==
    \/ \E t \in Transports : ServerAnswer(t)
    \/ \E t \in Transports : ClientReturn(t)
    \/ \E t \in Transports : ClientFault(t)

SpecWire == InitWireAny /\ [][NextWire]_vars

SpecParity == InitParity /\ [][NextWire]_vars

(***************************************************************************)
(* The service middleware.  A Service s wrapped by a stack of logging and  *)
(* instrumenting middlewares is called MaxPings times, one call after the  *)
(* other; s may return any pair.  A call goes down the stack to s, and the *)
(* pair s returns goes back up through each layer, innermost first.        *)
(***************************************************************************)
Stacks ==
    {<<"logging", "instrumenting">>, <<"instrumenting", "logging">>,
     <<"logging">>, <<"instrumenting">>}

\* What some Service may return.
ServicePairs == {[p |-> p, err |-> e] : p \in Payloads, e \in DomainErrors}

InitStacks ==
    /\ IdleChain
    /\ InitWire
    /\ mwStack \in Stacks
    /\ InitService

\* The caller calls Ping on the outermost layer; each layer calls next.Ping.
CallPing ==
    /\ mwAt = Len(mwStack)
    /\ mwDone < MaxPings
    /\ \E r \in ServicePairs : mwIn' = r
    /\ mwRet' = NoPair
    /\ mwAt' = Calling
    /\ UNCHANGED <<mwStack, mwLog, mwPings, mwDone>>
    /\ UNCHANGED <<chainVars, wireVars>>

\* s returns.
NextPing ==
    /\ mwAt = Calling
    /\ mwRet' = mwIn
    /\ mwAt' = 0
    /\ UNCHANGED <<mwStack, mwIn, mwLog, mwPings, mwDone>>
    /\ UNCHANGED <<chainVars, wireVars>>

\* One more layer has returned; the outermost returns to the caller.
Up ==
    /\ mwAt' = mwAt + 1
    /\ mwDone' = IF mwAt + 1 = Len(mwStack) THEN mwDone + 1 ELSE mwDone

\* loggingMiddleware.Ping returns: the deferred function logs the named
\* results, which next.Ping has set.
loggingMiddlewarePing ==
    /\ mwAt \in 0..(Len(mwStack) - 1)
    /\ mwStack[mwAt + 1] = "logging"
    /\ mwLog' = Append(mwLog, LogEntry(mwRet))
    /\ mwRet' = mwRet
    /\ Up
    /\ UNCHANGED <<mwStack, mwIn, mwPings>>
    /\ UNCHANGED <<chainVars, wireVars>>

\* instrumentingMiddleware.Ping returns: it adds 1 and returns p, err.
instrumentingMiddlewareReturn ==
    /\ mwAt \in 0..(Len(mwStack) - 1)
    /\ mwStack[mwAt + 1] = "instrumenting"
    /\ mwPings' = instrumentingMiddlewarePing(mwPings, mwRet)
    /\ mwRet' = mwRet
    /\ Up
    /\ UNCHANGED <<mwStack, mwIn, mwLog>>
    /\ UNCHANGED <<chainVars, wireVars>>

NextStacks ==
    \/ CallPing
    \/ NextPing
    \/ loggingMiddlewarePing
    \/ instrumentingMiddlewareReturn

SpecStacks == InitStacks /\ [][NextStacks]_vars

(***************************************************************************)
(* Properties of the wire.                                                 *)
(***************************************************************************)
Delivered == \A t \in Transports : wPc[t] = "done"

\* C5: for a deterministic Service, one Ping through the HTTP, the gRPC
\* and the Thrift client is classified alike by Set.Ping: a nil error
\* with the payload when the service succeeds, a non-nil error when it
\* fails.
C5_Parity ==
    Delivered =>
        \A t \in Transports :
            /\ ~wOut[t].panicked
            /\ (wOut[t].err = Nil) <=> (wIn.resp.Err = Nil)
            /\ wIn.resp.Err = Nil => wOut[t].p = wIn.resp.P

\* C6: on Thrift the server writes Err = "" exactly when the domain error
\* is nil and the error's message otherwise, and the client turns a
\* non-empty Err into a non-nil error with that message and an empty one
\* into nil.
C6_ThriftErrConvention ==
    /\ (wPc["thrift"] # "start" /\ wIn.err = Nil) =>
          /\ (wMsg["thrift"].err = "") <=> (wIn.resp.Err = Nil)
          /\ wIn.resp.Err # Nil => wMsg["thrift"].err = wIn.resp.Err.msg
    /\ (wPc["thrift"] = "done" /\ wMsg["thrift"].status = 0) =>
          IF wMsg["thrift"].err # ""
          THEN wOut["thrift"].err # Nil /\ wOut["thrift"].err.msg = wMsg["thrift"].err
          ELSE wOut["thrift"].err = Nil

\* C7: the HTTP server writes 200 for a response without a domain error,
\* a 4xx status other than 500 for the sentinel failure, and 500 for every
\* other error (admission rejections and request decode errors included);
\* every failure carries the error wrapper and no payload.
C7_HTTPStatus ==
    wPc["http"] # "start" =>
        LET m == wMsg["http"]
            served == wReq /\ wIn.err = Nil
        IN  /\ (served /\ wIn.resp.Err = Nil) =>
                  (m.status = 200 /\ m.body = "p" /\ m.p = wIn.resp.P)
            /\ (served /\ wIn.resp.Err = ErrRandomFailure) =>
                  (m.status \in 400..499 /\ m.status # 500)
            /\ (~served \/ wIn.resp.Err \notin {Nil, ErrRandomFailure}) => m.status = 500
            /\ (~served \/ wIn.resp.Err # Nil) =>
                  (m.body = "error" /\ m.p = "" /\ m.status # 200)
            /\ (served /\ wIn.resp.Err # Nil) => m.err = wIn.resp.Err.msg
            /\ (wReq /\ wIn.err # Nil) => m.err = wIn.err.msg

C7_Witness ==
    /\ wPc["http"] = "sent"
    /\ wReq
    /\ wIn.resp.Err = ErrRandomFailure
    /\ wMsg["http"] = Wire(StatusTeapot, "error", "", "random failure")

\* C8: err2str(nil) is "", str2err("") is nil, and an error with a
\* non-empty message m comes back from str2err(err2str(e)) as a non-nil
\* error with message m (seen on the gRPC reply, which carries
\* err2str(Err) and is decoded with str2err).
C8_RoundTrip ==
    (wPc["grpc"] = "done" /\ wIn.err = Nil) =>
        LET e == wIn.resp.Err
            str == wMsg["grpc"].err
            d == wOut["grpc"].err
        IN  /\ e = Nil => str = ""
            /\ str = "" => d = Nil
            /\ (e # Nil /\ e.msg # "") => (d # Nil /\ d.msg = e.msg)

C8_Witness ==
    /\ wPc["grpc"] = "done"
    /\ wIn.resp.Err = ErrRandomFailure
    /\ wMsg["grpc"].err = "random failure"
    /\ wOut["grpc"].err = NewError("random failure")

\* C9 as stated: every non-nil error, one with an empty message included,
\* comes back from str2err(err2str(e)) as a non-nil error with the same
\* message.
C9_AnyNonNil ==
    (wPc["grpc"] = "done" /\ wIn.err = Nil /\ wIn.resp.Err # Nil) =>
        (wOut["grpc"].err # Nil /\ wOut["grpc"].err.msg = wIn.resp.Err.msg)

\* C9 amended: a non-nil error with a non-empty message comes back as a
\* new non-nil error with the same message; a non-nil error whose message
\* is empty comes back as nil.
C9_NonNilAmended ==
    (wPc["grpc"] = "done" /\ wIn.err = Nil /\ wIn.resp.Err # Nil) =>
        IF wIn.resp.Err.msg = ""
        THEN wOut["grpc"].err = Nil
        ELSE wOut["grpc"].err = NewError(wIn.resp.Err.msg)

C9_Witness ==
    /\ wPc["grpc"] = "done"
    /\ wIn.resp.Err = NewError("")
    /\ wOut["grpc"].err = Nil

(***************************************************************************)
(* Properties of the chain.                                                *)
(***************************************************************************)
Threshold == TripAfter + 1
FullTimeout == Timeout(kind) * TicksPerSecond + 1
Succeeded(e) == ~e.panicked /\ e.err = Nil
InFlight(w) == pc[w] \in {"limiter", "inner", "after"}

\* The calls in flight that the breaker admitted in its current generation.
Current == {w \in Workers : InFlight(w) /\ gen[w] = cb.generation}

\* The timeout of an open breaker has not elapsed / has elapsed.
StillOpen == cb.state = "open" /\ cb.expiry > 0
HalfOpenNow == cb.state = "half-open" \/ (cb.state = "open" /\ cb.expiry = 0)

RejectedBy(w, err) ==
    /\ pc'[w] = "done"
    /\ epres'[w] = Returned(NoResponse, err)
    /\ wrapped' = wrapped
    /\ inner' = inner
    /\ IF kind = "server"
       THEN reply'[w] = errorEncoder(err)
       ELSE ret'[w] = [p |-> "", err |-> err, panicked |-> FALSE]

\* C1: a closed breaker never holds Threshold consecutive failures: each
\* error returned by a call of its current generation adds one to the run
\* or opens it, and the one that completes a run of Threshold opens it for
\* the full timeout; a call that arrives while the timeout has not elapsed
\* fails at once with the open-state error, and the wrapped endpoint is
\* not invoked.
C1_OpensAndRejects ==
    /\ [](cb.state = "closed" => cb.consecutiveFailures < Threshold)
    /\ [][\A w \in Workers :
            /\ (After(w) /\ cb.state = "closed" /\ gen[w] = cb.generation
                    /\ ~Succeeded(epres[w])) =>
                  IF cb.consecutiveFailures + 1 = Threshold
                  THEN cb'.state = "open" /\ cb'.expiry = FullTimeout
                  ELSE cb'.state = "closed"
                          /\ cb'.consecutiveFailures = cb.consecutiveFailures + 1
            /\ (Arrive(w) /\ StillOpen) =>
                  (RejectedBy(w, ErrOpenState) /\ cb' = cb)
         ]_vars

C1_Witness ==
    /\ StillOpen
    /\ wrapped = Threshold
    /\ \E w \in Workers : pc[w] = "done" /\ epres[w].err = ErrOpenState

\* C2: of the calls that arrive at a breaker whose timeout has elapsed,
\* one is admitted as the trial; every call that arrives while the trial
\* is in flight fails at once with the too-many-requests error, and the
\* wrapped endpoint is not invoked for it.
C2_SingleTrial ==
    /\ [](cb.state = "half-open" =>
            (Cardinality(Current) = cb.requests /\ cb.requests <= MaxRequests))
    /\ [][\A w \in Workers :
            (Arrive(w) /\ HalfOpenNow) =>
                IF cb.state = "half-open" /\ Current # {}
                THEN RejectedBy(w, ErrTooManyRequests) /\ cb' = cb
                ELSE /\ pc'[w] = "limiter"
                     /\ cb'.state = "half-open"
                     /\ gen'[w] = cb'.generation
                     /\ cb'.requests = 1
         ]_vars

C2_Witness ==
    /\ cb.state = "half-open"
    /\ \E w \in Workers, v \in Workers :
          /\ w # v
          /\ w \in Current
          /\ pc[w] \in {"inner", "after"}
          /\ pc[v] = "done"
          /\ epres[v].err = ErrTooManyRequests

\* C3: a breaker leaves half-open only when its trial call returns: to
\* closed when the trial succeeded, to open for the full timeout when it
\* failed; and the trial's return always leaves half-open.  A closed
\* breaker admits the calls that arrive.
C3_TrialDecides ==
    [][/\ (cb.state = "half-open" /\ cb'.state # "half-open") =>
              \E w \in Current :
                  /\ pc[w] = "after"
                  /\ pc'[w] = "done"
                  /\ IF Succeeded(epres[w])
                     THEN cb'.state = "closed" /\ cb'.consecutiveFailures = 0
                     ELSE cb'.state = "open" /\ cb'.expiry = FullTimeout
       /\ \A w \in Workers :
              (After(w) /\ cb.state = "half-open" /\ w \in Current) =>
                  cb'.state = IF Succeeded(epres[w]) THEN "closed" ELSE "open"
       /\ \A w \in Workers :
              (Arrive(w) /\ cb.state = "closed") => pc'[w] = "limiter"
      ]_vars

C3_Witness ==
    /\ cb.state = "closed"
    /\ cb.generation = 3
    /\ \E w \in Workers : pc[w] = "limiter"

\* The first TicksPerSecond - 1 ticks of a workload that exhausts the
\* burst: less than one token has been refilled.
Elapsed == MaxTicks - horizon
InWindow == Elapsed < TicksPerSecond

\* C4: from a full bucket and within a window shorter than the refill
\* interval, the limiter admits the first Burst calls that reach it and
\* fails every later one in the same step with the rate-limit error,
\* without invoking the inner endpoint and without taking a token.
C4_BurstThenReject ==
    /\ [](InWindow => inner <= Burst)
    /\ [][\A w \in Workers :
            (Limit(w) /\ InWindow) =>
                IF wrapped < Burst
                THEN pc'[w] = "inner" /\ tokens' = tokens - TokenUnit
                ELSE /\ pc'[w] = "after"
                     /\ epres'[w] = Returned(NoResponse, ErrLimited)
                     /\ inner' = inner
                     /\ tokens' = tokens
         ]_vars

C4_Witness ==
    /\ InWindow
    /\ Elapsed > 0
    /\ inner = Burst
    /\ wrapped = Burst + 2
    /\ \A w \in Workers : pc[w] = "after" /\ epres[w].err = ErrLimited

\* C10: a call becomes rejected by admission control before it has
\* reached the innermost endpoint (in the breaker on arrival, or in the
\* limiter) and never reaches it afterwards; no step of a rejected call
\* invokes the Service or changes the service-level counter or log.
Rejected(w) == epres[w].err \in AdmissionErrors
ServiceUntouched == inner' = inner /\ pings' = pings /\ svcLog' = svcLog

C10_RejectedNeverServed ==
    [][\A w \in Workers :
          /\ (pc'[w] = "limiter" /\ pc[w] # "limiter") => pc[w] = "idle"
          /\ (~Rejected(w) /\ epres'[w].err \in AdmissionErrors) =>
                /\ pc[w] \in {"idle", "limiter"}
                /\ pc'[w] \in {"after", "done"}
                /\ ServiceUntouched
          /\ Rejected(w) =>
                /\ pc'[w] # "inner"
                /\ epres'[w] = epres[w] \/ pc'[w] = "idle"
                /\ pc'[w] # pc[w] => ServiceUntouched
      ]_vars

C10_Witness ==
    /\ pings = Burst
    /\ inner = Burst
    /\ \E w \in Workers, v \in Workers :
          /\ pc[w] = "done" /\ epres[w].err = ErrLimited
          /\ pc[v] = "done" /\ epres[v].err = ErrOpenState
(***************************************************************************)
(* Properties of the middleware around the chain and around the Service.   *)
(***************************************************************************)
\* The step in which worker w's call of PingEndpoint returns to the handler.
Completes(w) == pc[w] \in {"idle", "after"} /\ pc'[w] = "done"

\* C11: on the server every call of PingEndpoint that has returned has
\* been logged once and counted once by the endpoint-level middlewares:
\* the step in which a call returns, whether from the Service, from the
\* limiter or from the breaker, adds exactly one log entry and one
\* observation, and no other step adds any.
C11_LoggedAndCountedOnce ==
    /\ [](/\ epLogs = calls - Cardinality({w \in Workers : InFlight(w)})
          /\ epObs = epLogs)
    /\ [][/\ \A w \in Workers :
                Completes(w) => (epLogs' = epLogs + 1 /\ epObs' = epObs + 1)
          /\ (epLogs' # epLogs \/ epObs' # epObs) => \E w \in Workers : Completes(w)
         ]_vars

C11_Witness ==
    /\ epLogs = Burst + Threshold + 1
    /\ epObs = Burst + Threshold + 1
    /\ pings = Burst
    /\ \E w \in Workers, v \in Workers :
          /\ pc[w] = "done" /\ epres[w].err = ErrLimited
          /\ pc[v] = "done" /\ epres[v].err = ErrOpenState

\* The step in which the Service returns to worker w's call.
ServiceReturns(w) == kind = "server" /\ pc[w] = "inner" /\ pc'[w] = "after"

\* C12: the service-level counter never decreases and always equals the
\* number of Ping calls that have returned from the Service: the step in
\* which a call returns adds exactly 1, whether it returns the payload or
\* the sentinel error, and no other step changes the counter.
C12_CounterCountsReturns ==
    /\ [](kind = "server" => pings = inner)
    /\ [][/\ pings' >= pings
          /\ \A w \in Workers : ServiceReturns(w) => pings' = pings + 1
          /\ pings' # pings => \E w \in Workers : ServiceReturns(w)
         ]_vars

C12_Witness ==
    /\ kind = "server"
    /\ pings = 3
    /\ inner = 3
    /\ BagIn([method |-> "Ping", p |-> "pong", err |-> Nil], svcLog)
    /\ CopiesIn([method |-> "Ping", p |-> "", err |-> ErrRandomFailure], svcLog) = 2

\* The Service has returned in the current (or the last) call, and the
\* layers of the stack that have returned in it.
Returning == mwAt # Calling /\ (mwDone > 0 \/ mwAt < Len(mwStack))
Passed == {mwStack[i] : i \in 1..(IF Returning THEN mwAt ELSE 0)}

\* C13: whatever pair (payload, error) the wrapped Service returns, each
\* layer of Logging(Instrumenting(s)), Instrumenting(Logging(s)),
\* Logging(s) and Instrumenting(s) returns that very pair, so the caller
\* gets it; the logging layer writes nothing before the Service has
\* returned and then writes one entry holding that pair, also when the
\* error is not nil.
C13_Transparent ==
    /\ [](Returning => mwRet = mwIn)
    /\ []("logging" \in Passed =>
            /\ mwLog # << >>
            /\ mwLog[Len(mwLog)] = [method |-> "Ping", p |-> mwIn.p, err |-> mwIn.err])
    /\ [][mwLog' # mwLog =>
            /\ mwAt # Calling
            /\ mwLog' = Append(mwLog, [method |-> "Ping", p |-> mwIn.p, err |-> mwIn.err])
            /\ mwRet' = mwIn
         ]_vars

C13_Witness ==
    /\ mwStack = <<"instrumenting", "logging">>
    /\ mwAt = Len(mwStack)
    /\ mwDone = MaxPings
    /\ mwIn = [p |-> "pong", err |-> NewError("boom")]
    /\ mwRet = mwIn
    /\ mwLog[Len(mwLog)] = [method |-> "Ping", p |-> "pong", err |-> NewError("boom")]
    /\ mwPings = MaxPings

\* Worker w's call of the Ping endpoint has returned to its caller.
Called(w) == pc[w] = "done" /\ epres[w] # NoResult

\* C14: on the server and on every client the tracing middleware wraps
\* the breaker and the limiter, so every call that has returned, one
\* rejected by the limiter or by the breaker included, has started and
\* finished exactly one span named "Ping".
C14_OneSpanPerCall ==
    \A w \in Workers :
        Called(w) => span[w] = [name |-> "Ping", started |-> 1, finished |-> 1]

\* C15: when the network call of a client fails at the transport level,
\* Set.Ping of that client returns an empty payload and a non-nil error:
\* it neither panics nor returns a nil error.
C15_TransportFailureSurfaced ==
    \A t \in Transports :
        wPc[t] = "faulted" =>
            /\ ~wOut[t].panicked
            /\ wOut[t].p = ""
            /\ wOut[t].err # Nil

\* C16: when the HTTP server answers with a status other than 200, the
\* error the HTTP client returns carries the message of the "error" field
\* of the response body.
C16_ErrorCarriesBodyMessage ==
    (wPc["http"] = "done" /\ wMsg["http"].status # StatusOK) =>
        /\ wOut["http"].err # Nil
        /\ wOut["http"].err.msg = wMsg["http"].err

\* The chain has passed worker w's call to the Service and back.
Admitted(w) == Called(w) /\ epres[w].err = Nil

C18_AnswersPONG ==
    \A w \in Workers :
        (kind = "server" /\ Admitted(w)) => reply[w] = Wire(StatusOK, "p", "PONG", "")

\* What Set.Ping returns for worker w's call: on a client it is what the
\* caller got; for the in-process Set of the server it is Set.Ping applied
\* to what the chain returned.
SetReturn(w) == IF kind = "server" THEN SetPing(epres[w]) ELSE ret[w]

\* C19: whenever Set.Ping returns, on the in-process Set and on each
\* client, a non-nil error comes with an empty payload: the result is a
\* payload with a nil error or an empty payload with an error.
C19_NoPartialResult ==
    \A w \in Workers :
        (Called(w) /\ ~SetReturn(w).panicked) =>
            (SetReturn(w).err = Nil \/ SetReturn(w).p = "")

C19_Witness ==
    /\ kind = "grpc"
    /\ \E w \in Workers, v \in Workers :
          /\ Called(w) /\ ret[w] = [p |-> "", err |-> NewError("random failure"), panicked |-> FALSE]
          /\ Called(v) /\ ret[v] = [p |-> "pong", err |-> Nil, panicked |-> FALSE]

\* The step in which worker w's call invokes the innermost endpoint.
Invokes(w) == pc[w] = "inner" /\ pc'[w] = "after"

\* Worker w's call has not reached the innermost endpoint and may still.
Before(w) == pc[w] \in {"limiter", "inner"}

\* C20: one call of Set.Ping invokes the innermost endpoint at most
\* once: a call only moves forward through the chain (breaker, limiter,
\* innermost endpoint, breaker, caller), whatever the innermost endpoint
\* returned; each invocation belongs to one step of one call; and the
\* invocations never outnumber the calls that have got past the limiter.
C20_NoRetries ==
    /\ [](inner <= calls - Cardinality({w \in Workers : Before(w)}))
    /\ [][/\ \A w \in Workers :
                pc'[w] # pc[w] =>
                    \/ pc[w] = "idle" /\ pc'[w] \in {"limiter", "done"}
                    \/ pc[w] = "limiter" /\ pc'[w] \in {"inner", "after"}
                    \/ pc[w] = "inner" /\ pc'[w] = "after"
                    \/ pc[w] = "after" /\ pc'[w] = "done"
                    \/ pc[w] = "done" /\ pc'[w] = "idle"
          /\ inner' = inner + Cardinality({w \in Workers : Invokes(w)})
          /\ Cardinality({w \in Workers : Invokes(w)}) <= 1
         ]_vars

C20_Witness ==
    /\ kind \in Transports
    /\ calls = 2
    /\ inner = 2
    /\ \A w \in Workers : pc[w] = "done" /\ ~ret[w].panicked /\ ret[w].err # Nil

\* The step in which the wrapped endpoint's result for worker w's call
\* reaches a closed breaker that admitted the call in its current
\* generation.
Outcome(w) == After(w) /\ cb.state = "closed" /\ gen[w] = cb.generation

\* The errors the wrapped endpoint of the server's breaker has returned:
\* the calls the limiter has rejected and the breaker has been told of.
LimiterErrors ==
    wrapped - inner
        - Cardinality({w \in Workers : pc[w] = "after" /\ epres[w].err # Nil})

\* C21: the failure count of a closed breaker is the length of the
\* current run of errors: a success of the wrapped endpoint sets it to 0
\* and leaves the breaker closed, an error adds 1, and the breaker leaves
\* closed only with the error that makes the run Threshold long; so no
\* number of errors in shorter runs opens it.
C21_OnlyConsecutive ==
    [][/\ \A w \in Workers :
            /\ (Outcome(w) /\ Succeeded(epres[w])) =>
                  (cb'.state = "closed" /\ cb'.consecutiveFailures = 0)
            /\ (Outcome(w) /\ ~Succeeded(epres[w])
                    /\ cb.consecutiveFailures + 1 < Threshold) =>
                  (cb'.state = "closed"
                      /\ cb'.consecutiveFailures = cb.consecutiveFailures + 1)
       /\ (cb.state = "closed" /\ cb'.state # "closed") =>
              /\ cb.consecutiveFailures = Threshold - 1
              /\ \E w \in Workers : Outcome(w) /\ ~Succeeded(epres[w])
       /\ (cb.state = "closed" /\ cb'.consecutiveFailures # cb.consecutiveFailures) =>
              \E w \in Workers : Outcome(w)
      ]_vars

C21_Witness ==
    /\ cb.state = "closed"
    /\ cb.generation = 0
    /\ cb.consecutiveFailures = 2
    /\ LimiterErrors = Threshold + 1
    /\ \A w \in Workers : pc[w] = "done"

\* The calls the limiter has admitted.
AdmittedByLimiter == inner + Cardinality({w \in Workers : pc[w] = "inner"})

\* C22: with several workers calling one limiter, the token count is
\* never negative and the tokens taken plus the tokens left never exceed
\* the burst plus what the elapsed time has refilled; the limiter's step
\* for a call either admits it, taking one token, or rejects it with the
\* rate-limit error, taking none, and a call it admitted carries no
\* rejection.
C22_AdmitsWithinTokens ==
    /\ [](/\ tokens >= 0
          /\ AdmittedByLimiter * TokenUnit + tokens <= Burst * TokenUnit + Elapsed
          /\ \A w \in Workers : pc[w] = "inner" => epres[w].err # ErrLimited)
    /\ [][\A w \in Workers :
            Limit(w) =>
                \/ /\ pc'[w] = "inner"
                   /\ tokens' = tokens - TokenUnit
                   /\ epres'[w].err = Nil
                \/ /\ pc'[w] = "after"
                   /\ tokens' = tokens
                   /\ epres'[w].err = ErrLimited
         ]_vars

C22_Witness ==
    /\ AdmittedByLimiter = Burst + 1
    /\ Elapsed >= TicksPerSecond
    /\ tokens < TokenUnit
    /\ \E w \in Workers, v \in Workers :
          /\ pc[w] = "inner"
          /\ pc[v] = "after" /\ epres[v].err = ErrLimited

\* C23: on the server the Ping endpoint returns a nil error also when
\* the Service fails, the failure being inside the response; the breaker
\* takes such a return for a success, so its failure count grows only
\* when the limiter has rejected a call, and a run of domain failures of
\* any length leaves it closed.
C23_DomainFailuresNotCounted ==
    /\ [](\A w \in Workers :
            (pc[w] = "after" /\ ~epres[w].resp.isNil) =>
                (epres[w].err = Nil /\ epres[w].resp.Err = ErrRandomFailure))
    /\ [](wrapped = inner + Cardinality({w \in Workers : pc[w] = "inner"}) =>
            (cb.state = "closed" /\ cb.generation = 0 /\ cb.consecutiveFailures = 0))
    /\ [][/\ \A w \in Workers :
                (Outcome(w) /\ ~epres[w].resp.isNil) =>
                    (cb'.state = "closed" /\ cb'.consecutiveFailures = 0)
          /\ cb'.consecutiveFailures > cb.consecutiveFailures =>
                \E w \in Workers : After(w) /\ epres[w].err = ErrLimited
         ]_vars

C23_Witness ==
    /\ failureRate = "1"
    /\ pings = Burst
    /\ CopiesIn([method |-> "Ping", p |-> "", err |-> ErrRandomFailure], svcLog) = Burst
    /\ wrapped = Burst
    /\ cb.state = "closed"
    /\ cb.generation = 0
    /\ cb.consecutiveFailures = 0
    /\ cb.consecutiveSuccesses = Burst

\* What the innermost endpoint of the client of kind k returns when the
\* server answered with the sentinel domain failure.
DomainFailureAt(k) ==
    ClientEndpoint(k, FALSE, ServerWire(k, MakePingEndpoint(basicServicePing(TRUE))))

\* C24: on each client, the return of a Ping that the server answered
\* with the sentinel domain failure is no failure for the client's
\* breaker: it leaves a closed breaker closed with no failure counted.
C24_ClientIgnoresDomainFailure ==
    [][\A w \in Workers :
          (kind \in Transports /\ Outcome(w) /\ epres[w] = DomainFailureAt(kind)) =>
              (cb'.state = "closed" /\ cb'.consecutiveFailures = 0)
      ]_vars

\* Worker w's request was answered without a call of the Ping endpoint.
NotDecoded(w) == kind = "server" /\ pc[w] = "done" /\ epres[w] = NoResult

\* C25: the HTTP server answers a request whose body it cannot decode
\* with status 500 and the JSON error body, and the step that answers it
\* does not call the Ping endpoint: the limiter's tokens, the breaker,
\* the invocation counts, the service counter and log and the
\* endpoint-level log and histogram stay as they are.
C25_MalformedNotInvoked ==
    /\ [](\A w \in Workers :
            NotDecoded(w) =>
                /\ reply[w].status = 500
                /\ reply[w].body = "error"
                /\ reply[w].p = ""
                /\ reply[w].err # "")
    /\ [][\A w \in Workers :
            (Malformed(w) \/ (~NotDecoded(w) /\ NotDecoded(w)')) =>
                /\ tokens' = tokens
                /\ cb' = cb
                /\ wrapped' = wrapped
                /\ inner' = inner
                /\ pings' = pings
                /\ svcLog' = svcLog
                /\ epLogs' = epLogs
                /\ epObs' = epObs
                /\ calls' = calls + 1
         ]_vars

C25_Witness ==
    /\ calls = 3
    /\ wrapped = 2
    /\ tokens = BucketFull - 2 * TokenUnit
    /\ \E w \in Workers, v \in Workers :
          /\ NotDecoded(w)
          /\ reply[w] = Wire(StatusInternalServerError, "error", "", "EOF")
          /\ pc[v] = "inner"
====
